---- MODULE Spec2Model ----
(***************************************************************************)
(* video-edit: a command-line wrapper around ffprobe/ffmpeg.  The model    *)
(* follows one run of the program: the probe and classification of the     *)
(* input streams, the dispatch of the command, the subtitle extraction     *)
(* subprocesses, the construction of the primary ffmpeg command (whose     *)
(* audio part is built by asynchronous callbacks) and the start of the     *)
(* primary transcode.                                                      *)
(*                                                                         *)
(* src/ holds two revisions of the stream-mapping and runner code; the     *)
(* variable rev selects the revision a run executes:                       *)
(*   rev = 1  services/ffmpeg.js, services/stream/audio-stream.js,         *)
(*            services/stream/subtitle-stream.js                           *)
(*   rev = 2  unnamed/part_017 (class Ffmpeg), unnamed/part_008,           *)
(*            unnamed/part_028                                             *)
(* The video mapping, filename and App code are shared, and so is the      *)
(* classification but for formatChannelLayout.  The stream records carry   *)
(* the fields the mapping reads (formattedCodecName, resolution and fps    *)
(* are only printed).                                                      *)
(*                                                                         *)
(* The event loop is modelled as in Node: an action is one synchronous     *)
(* block; continuations of awaits wait in the FIFO microtask queue mq;     *)
(* I/O callbacks (encoder lookups, subprocess events) run only when mq is  *)
(* empty, in any order.                                                    *)
(*                                                                         *)
(* A run starts with the construction of App (three revisions of the       *)
(* constructor, selected by appRev) and ends when the process ends:        *)
(* process.exit, an uncaught exception or an unhandled rejection (both     *)
(* end the process with code 1, the default of node 15 and later), or an   *)
(* empty event loop (code 0).                                              *)
(*                                                                         *)
(* Spec is the run of the program.  SpecFn runs the pure functions of the  *)
(* stream, file-name and file-check modules one call at a time, on inputs  *)
(* the probe of a run does not reach (channel layouts, long codec names,   *)
(* padded titles, records of other codec types).                           *)
(***************************************************************************)
EXTENDS Integers, Sequences, FiniteSets, TLC

(* ------------------------------ bounds --------------------------------- *)

\* Number of audio and subtitle records in the probe, after the video one.
MaxStreams == 2

\* Longest probe given to getInputStreams when it is called on its own.
MaxProbe == 3

(* --------------------------- configuration ----------------------------- *)

outputContainerFormat == "matroska"

outputVideoCodec == "hevc"

outputAudioCodec == "aac"

textSubTypes == {"mov_text", "subrip", "ass", "ssa"}

defaultPreset == "slow"

defaultCrf == 24

\* A tag that ffprobe did not report (JavaScript undefined); a template
\* literal prints it as the text "undefined".
Undefined == "undefined"

(* ------------------------------ strings -------------------------------- *)

\* The functions that edit text work on a string given as the sequence of
\* its characters; Str joins the characters into the string.
RECURSIVE Str(_)
Str(chars) == IF chars = <<>> THEN "" ELSE Head(chars) \o Str(Tail(chars))

\* Number.prototype.toString for a natural number.
RECURSIVE numberToChars(_)
numberToChars(n) ==
  IF n < 10 THEN <<ToString(n)>>
  ELSE numberToChars(n \div 10) \o <<ToString(n % 10)>>

\* String.prototype.replace(/\(.*\)/, ""): the first "(" that has a ")"
\* after it, up to the last ")", is removed.
replaceParens(chars) ==
  LET opens == {i \in DOMAIN chars :
                  chars[i] = "(" /\ \E j \in DOMAIN chars : j > i /\ chars[j] = ")"}
  IN  IF opens = {} THEN chars
      ELSE LET i == CHOOSE x \in opens : \A y \in opens : x <= y
               closes == {j \in DOMAIN chars : j > i /\ chars[j] = ")"}
               j == CHOOSE x \in closes : \A y \in closes : x >= y
           IN  SubSeq(chars, 1, i - 1) \o SubSeq(chars, j + 1, Len(chars))

\* String.prototype.trim
RECURSIVE trim(_)
trim(chars) ==
  IF chars = <<>> THEN <<>>
  ELSE IF Head(chars) = " " THEN trim(Tail(chars))
  ELSE IF chars[Len(chars)] = " " THEN trim(SubSeq(chars, 1, Len(chars) - 1))
  ELSE chars

\* String.prototype.toUpperCase on one character.
toUpperCase(c) ==
  CASE c = "a" -> "A" [] c = "b" -> "B" [] c = "c" -> "C" [] c = "d" -> "D"
    [] c = "e" -> "E" [] c = "f" -> "F" [] c = "g" -> "G" [] c = "h" -> "H"
    [] c = "i" -> "I" [] c = "j" -> "J" [] c = "k" -> "K" [] c = "l" -> "L"
    [] c = "m" -> "M" [] c = "n" -> "N" [] c = "o" -> "O" [] c = "p" -> "P"
    [] c = "q" -> "Q" [] c = "r" -> "R" [] c = "s" -> "S" [] c = "t" -> "T"
    [] c = "u" -> "U" [] c = "v" -> "V" [] c = "w" -> "W" [] c = "x" -> "X"
    [] c = "y" -> "Y" [] c = "z" -> "Z" [] OTHER -> c

(* ------------------------------ inputs --------------------------------- *)

Revisions == {1, 2}

Commands ==
  {"info", "extract-subs", "clean", "convert-audio", "convert-video",
   "full", "force-full", "force-full-tv"}

\* What getAvailableEncoders reports for libfdk_aac: an entry of type
\* "audio", an entry of another type, or no entry at all.
EncoderLists == {"audio", "video", "absent"}

\* A record of the probe.  The title tag and the channel_layout are given
\* by their characters (empty when the tag is missing).
Probe(type, codec, lang, title, channels) ==
  [codec_type |-> type, codec_name |-> codec, language |-> lang,
   title |-> title, channels |-> channels, channel_layout |-> <<>>]

VideoProbes ==
  {Probe("video", c, "eng", <<>>, 0) : c \in {"h264", "hevc"}}

\* Audio records carry no channel_layout tag, so the layout label is
\* derived from the channel count.
AudioProbes ==
  {Probe("audio", "ac3", "eng", <<>>, 6), Probe("audio", "aac", "eng", <<>>, 2),
   Probe("audio", "ac3", "fre", <<>>, 6), Probe("audio", "aac", "fre", <<>>, 2)}

SubProbes ==
  {Probe("subtitle", "subrip", "eng", <<>>, 0),
   Probe("subtitle", "subrip", "eng", <<"d", "e", "f", "a", "u", "l", "t">>, 0),
   Probe("subtitle", "subrip", "fre", <<>>, 0),
   Probe("subtitle", "hdmv_pgs_subtitle", "eng", <<>>, 0),
   Probe("subtitle", "dvd_subtitle", "eng", <<"S", "D", "H">>, 0),
   Probe("subtitle", "dvd_subtitle", "fre", <<>>, 0),
   Probe("subtitle", "dvd_subtitle", Undefined, <<>>, 0)}

SeqsUpTo(S, n) == UNION {[1..k -> S] : k \in 0..n}

\* Path of the input file without its extension:
\* path.join(path.dirname(inputFile), path.basename(inputFile, ext)).
inputBase == "/videos/movie"

(* --------------------------- classification ---------------------------- *)

\* `x || d` on a tag that may be missing or empty.
OrElse(x, d) == IF x = Undefined \/ x = "" THEN d ELSE x

\* formatChannelLayout of revision r, on the characters of
\* channelLayout.toString().
formatChannelLayout(r, channelLayout) ==
  LET channels == Str(replaceParens(channelLayout))
  IN  IF r = 2 /\ (channels = "5" \/ channels = "5.0") THEN "5.0 Surround"
      ELSE IF channels = "6" \/ channels = "5.1" THEN "5.1 Surround"
      ELSE IF (r = 2 /\ channels = "8") \/ channels = "7.1" THEN "7.1 Surround"
      ELSE LET cs == replaceParens(channelLayout)
           IN  IF cs = <<>> THEN ""
               ELSE toUpperCase(Head(cs)) \o Str(Tail(cs))

\* formatCodecName (the same in both revisions), on the characters of the
\* codec's long name.
formatCodecName(name) ==
  LET formattedCodecName == Str(trim(replaceParens(name)))
  IN  IF formattedCodecName = "ATSC A/52B" THEN "AC3" ELSE formattedCodecName

\* The title that keeps the original title of the first stream as well.
formatStreamTitleKeepsTitle(stream) ==
  IF stream.origTitle # ""
    THEN stream.origTitle
    ELSE stream.channelLayout
           \o (IF stream.index = 0 THEN " - Default" ELSE " ")

formatStreamTitle(stream) ==
  IF stream.index > 0 /\ stream.origTitle # ""
    THEN stream.origTitle
    ELSE stream.channelLayout
           \o (IF stream.index = 0 THEN " - Default" ELSE " ")

\* The records of revision 1 have no channelCount; none of its code reads
\* it.
getAudioStreamData(r, stream, index) ==
  LET audioStream ==
        [lang |-> OrElse(stream.language, "eng"),
         origTitle |-> Str(trim(stream.title)),
         codecName |-> stream.codec_name,
         channelLayout |->
           formatChannelLayout(r, IF stream.channel_layout # <<>>
                                    THEN stream.channel_layout
                                    ELSE numberToChars(stream.channels)),
         channelCount |-> stream.channels,
         title |-> "",
         index |-> index]
  IN  [audioStream EXCEPT !.title = formatStreamTitle(audioStream)]

getVideoStreamData(stream, index) ==
  [lang |-> OrElse(stream.language, "eng"),
   codecName |-> OrElse(stream.codec_name, ""),
   title |-> "",
   index |-> index]

\* The subtitle record with a one-based index.
getSubtitleStreamDataOneBased(stream, index) ==
  [lang |-> stream.language,
   title |-> Str(trim(stream.title)),
   codecName |-> stream.codec_name,
   index |-> index + 1]

getSubtitleStreamData(stream, index) ==
  [lang |-> stream.language,
   title |-> Str(trim(stream.title)),
   codecName |-> stream.codec_name,
   index |-> index]

RECURSIVE getInputStreamsFrom(_, _, _)
getInputStreamsFrom(r, streams, inputStreams) ==
  IF streams = <<>> THEN inputStreams
  ELSE
    LET stream == Head(streams)
        next ==
          CASE stream.codec_type = "audio" ->
                 [inputStreams EXCEPT !.audio =
                    Append(@, getAudioStreamData(r, stream, Len(@)))]
            [] stream.codec_type = "video" ->
                 [inputStreams EXCEPT !.video =
                    Append(@, getVideoStreamData(stream, Len(@)))]
            [] stream.codec_type = "subtitle" ->
                 [inputStreams EXCEPT !.subtitle =
                    Append(@, getSubtitleStreamData(stream, Len(@)))]
            [] OTHER -> inputStreams
    IN  getInputStreamsFrom(r, Tail(streams), next)

NoStreams == [audio |-> <<>>, video |-> <<>>, subtitle |-> <<>>]

getInputStreams(r, streams) == getInputStreamsFrom(r, streams, NoStreams)

(* ------------------------- sequence helpers ---------------------------- *)

\* Positions (1-based, ascending) of the elements of s that satisfy Test.
SelectIdx(s, Test(_)) ==
  SelectSeq([k \in 1..Len(s) |-> k], LAMBDA k : Test(s[k]))

RECURSIVE InsertRef(_, _, _)
\* Insert reference r into refs (references into streams, sorted by
\* descending channelCount) after every element that is not smaller.
InsertRef(refs, r, streams) ==
  IF refs = <<>> THEN <<r>>
  ELSE IF streams[Head(refs)].channelCount >= streams[r].channelCount
    THEN <<Head(refs)>> \o InsertRef(Tail(refs), r, streams)
    ELSE <<r>> \o refs

RECURSIVE SortRefs(_, _)
\* Array.prototype.sort((a, b) => b.channelCount - a.channelCount) on a
\* list of references: stable, descending.
SortRefs(refs, streams) ==
  IF refs = <<>> THEN <<>>
  ELSE InsertRef(SortRefs(SubSeq(refs, 1, Len(refs) - 1), streams),
                 refs[Len(refs)], streams)

RECURSIVE Flatten(_)
Flatten(ss) == IF ss = <<>> THEN <<>> ELSE Head(ss) \o Flatten(Tail(ss))

Range(s) == {s[k] : k \in DOMAIN s}

(* ---------------------------- video mapping ---------------------------- *)

\* setVideoConvertOpts with forceConvert left out of needsConverting.
setVideoConvertOptsNoForce(stream, opts) ==
  IF opts.convertVideo /\ stream.codecName # outputVideoCodec
    THEN << <<"-vcodec", "libx265">>,
            <<"-preset", OrElse(opts.ffmpegPreset, defaultPreset)>>,
            <<"-crf", ToString(IF opts.ffmpegCrf = 0 THEN defaultCrf ELSE opts.ffmpegCrf)>>,
            <<"-pix_fmt:v:0", "yuv420p10le">>,
            <<"-profile:v:0", "main10">> >>
    ELSE << <<"-vcodec", "copy">> >>

\* Each element of a command is the argument list of one outputOptions()
\* call; videoCodec(c) adds the arguments "-vcodec", c.
setVideoConvertOpts(stream, opts) ==
  LET preset == OrElse(opts.ffmpegPreset, defaultPreset)
      crf == ToString(IF opts.ffmpegCrf = 0 THEN defaultCrf ELSE opts.ffmpegCrf)
      needsConverting ==
        opts.forceConvert = TRUE \/ stream.codecName # outputVideoCodec
  IN  IF opts.convertVideo /\ needsConverting
        THEN << <<"-vcodec", "libx265">>,
                <<"-preset", preset>>,
                <<"-crf", crf>> >>
             \o (IF outputVideoCodec = "hevc"
                   THEN << <<"-pix_fmt:v:0", "yuv420p10le">>,
                           <<"-profile:v:0", "main10">> >>
                   ELSE <<>>)
        ELSE << <<"-vcodec", "copy">> >>

\* The options mapVideoStreams adds to the command.
mapVideoStreamsOpts(streams, opts) ==
  << <<"-map 0:v:0">>, <<"-metadata:s:v:0", "language=eng">> >>
  \o setVideoConvertOpts(streams[1], opts)

\* The video records after mapVideoStreams: the first record is the mapped
\* one and is modified in place when converting.
mapVideoStreams(streams, opts) ==
  IF opts.convertVideo
    THEN [streams EXCEPT ![1].codecName = outputVideoCodec]
    ELSE streams

(* --------------------------- subtitle mapping -------------------------- *)

\* getImageSubtitles without the test against textSubTypes.
getImageSubtitlesAnyFormat(streams) ==
  SelectIdx(streams, LAMBDA stream : stream.codecName # "hdmv_pgs_subtitle")

getImageSubtitles(streams) ==
  SelectIdx(streams,
            LAMBDA stream : stream.codecName \notin textSubTypes
                            /\ stream.codecName # "hdmv_pgs_subtitle")

getTextSubtitles(streams) ==
  SelectIdx(streams, LAMBDA stream : stream.codecName \in textSubTypes)

\* The references (positions in streams) of the subtitle streams that
\* mapImageSubs maps, in order.
mapImageSubs(r, streams) ==
  SelectSeq(getImageSubtitles(streams),
            LAMBDA k : streams[k].lang = "eng"
                       \/ (r = 2 /\ streams[k].lang = Undefined))

\* The options mapImageSubs adds for the i-th (zero-based) mapped stream.
mapImageSubOpts(r, sub, i) ==
  LET n == ToString(IF r = 1 THEN sub.index ELSE i)
  IN  << <<"-map", "0:s:" \o ToString(sub.index)>>,
         <<"-c:s:" \o n \o " copy">> >>
      \o (IF sub.title # ""
            THEN << <<"-metadata:s:s:" \o n, "title=" \o sub.title \o "  ">> >>
            ELSE <<>>)

mapImageSubsOpts(r, streams) ==
  LET imageSubs == mapImageSubs(r, streams)
  IN  Flatten([i \in 1..Len(imageSubs) |->
                 mapImageSubOpts(r, streams[imageSubs[i]], i - 1)])

(* ----------------------------- file check ------------------------------ *)

\* The test without its audio clause.
streamNeedsAttentionNoAudio(lang, codec, type) ==
  lang # "eng" \/ (type = "subtitle" /\ codec \in textSubTypes)

streamNeedsAttention(lang, codec, type) ==
  \/ lang # "eng"
  \/ (type = "audio" /\ codec # "aac")
  \/ (type = "subtitle" /\ codec \in textSubTypes)

(* ------------------------- subtitle file names ------------------------- *)

\* String.replace("SDH", "sdh") on the titles of SubProbes.
replaceSDH(label) == IF label = "SDH" THEN "sdh" ELSE label

\* The label that prefers the title to "default".
getStreamLabelTitleFirst(stream, streamCount) ==
  IF streamCount = 1 THEN ""
  ELSE
    LET label0 == stream.title
        label1 == IF label0 = "" /\ stream.index = 0 THEN "default" ELSE label0
        label == replaceSDH(label1)
    IN  "." \o (IF label # "" THEN label ELSE ToString(stream.index))

getStreamLabel(stream, streamCount) ==
  IF streamCount = 1 THEN ""
  ELSE
    LET label0 == stream.title
        label1 == IF stream.index = 0 THEN "default" ELSE label0
        label == replaceSDH(label1)
    IN  "." \o (IF label # "" THEN label ELSE ToString(stream.index))

getSubFilename(stream, streamCount) ==
  inputBase \o "." \o stream.lang \o getStreamLabel(stream, streamCount) \o ".srt"

(* ---------------------------- audio mapping ---------------------------- *)

\* getOutputAudioCodec (rev 1) / getAudioEncoder (rev 2) up to their await:
\* "copy" at once, or "lookup" when getAvailableEncoders is called.
getAudioEncoder(currentCodec, convert) ==
  IF convert # TRUE THEN "copy"
  ELSE IF currentCodec = outputAudioCodec THEN "copy"
  ELSE IF outputAudioCodec # "aac" THEN outputAudioCodec
  ELSE "lookup"

\* The callback given to getAvailableEncoders: the value the promise is
\* resolved with, or "TypeError" when availableEncoders.libfdk_aac is
\* undefined and its .type is read.
availableEncodersCallback(list) ==
  IF list = "absent" THEN "TypeError"
  ELSE IF list = "audio" THEN "libfdk_aac"
  ELSE "aac"

\* hasLibfdkEncoder of rev 2 (reads libfdk_aac?.type).
hasLibfdkEncoder(list) == list = "audio"

\* References (positions in streams) of the streams mapAudioStreams returns.
mapAudioStreams(r, streams) ==
  LET english == SelectIdx(streams, LAMBDA s : s.lang = "eng")
  IN  IF r = 1 THEN english ELSE SortRefs(english, streams)

\* References of the streams the forEach of mapAudioStreams walks through.
mapAudioStreamsEach(r, streams) ==
  IF r = 1 THEN [k \in 1..Len(streams) |-> k] ELSE mapAudioStreams(r, streams)

\* The options the forEach callback adds after its await, for the stream
\* at zero-based position i of the list walked through.
mapAudioStreamOpts(r, stream, i, codec) ==
  LET idx == ToString(stream.index)
  IN  << <<"-map", "0:a:" \o idx>>,
         <<IF r = 1 THEN "-c:a " \o codec
                    ELSE "-c:a:" \o ToString(i) \o " " \o codec>>,
         <<"-metadata:s:a:" \o idx, "language=eng">>,
         <<"-metadata:s:a:" \o idx, "title=" \o stream.title \o "  ">> >>

(* --------------------------- command dispatch -------------------------- *)

defaultOpts ==
  [extractSubs |-> FALSE, convertAudio |-> FALSE, convertVideo |-> FALSE,
   extractOnly |-> FALSE, forceConvert |-> FALSE, ffmpegPreset |-> "",
   ffmpegCrf |-> 0]

tvCrf == 26

\* The switch of App.run with an extract-subs case that leaves extractOnly
\* out.
commandOptsNoExtractOnly(c) ==
  CASE c = "extract-subs" -> [defaultOpts EXCEPT !.extractSubs = TRUE]
    [] c = "clean" -> [defaultOpts EXCEPT !.extractSubs = TRUE]
    [] c = "convert-audio" -> [defaultOpts EXCEPT !.convertAudio = TRUE]
    [] c = "convert-video" -> [defaultOpts EXCEPT !.convertVideo = TRUE]
    [] OTHER ->
         [defaultOpts EXCEPT !.extractSubs = TRUE, !.convertAudio = TRUE,
                             !.convertVideo = TRUE]

\* The switch of App.run merged over defaultOpts by App.cleanup.
commandOpts(c) ==
  CASE c = "extract-subs" ->
         [defaultOpts EXCEPT !.extractSubs = TRUE, !.extractOnly = TRUE]
    [] c = "clean" -> [defaultOpts EXCEPT !.extractSubs = TRUE]
    [] c = "convert-audio" -> [defaultOpts EXCEPT !.convertAudio = TRUE]
    [] c = "convert-video" -> [defaultOpts EXCEPT !.convertVideo = TRUE]
    [] c = "full" ->
         [defaultOpts EXCEPT !.extractSubs = TRUE, !.convertAudio = TRUE,
                             !.convertVideo = TRUE]
    [] c = "force-full" ->
         [defaultOpts EXCEPT !.extractSubs = TRUE, !.convertAudio = TRUE,
                             !.convertVideo = TRUE, !.forceConvert = TRUE]
    [] c = "force-full-tv" ->
         [defaultOpts EXCEPT !.extractSubs = TRUE, !.convertAudio = TRUE,
                             !.convertVideo = TRUE, !.forceConvert = TRUE,
                             !.ffmpegPreset = "medium", !.ffmpegCrf = tvCrf]
    [] OTHER -> defaultOpts

\* The commands whose run reaches Ffmpeg.run.
MappingCommands ==
  {"clean", "convert-audio", "convert-video", "full", "force-full",
   "force-full-tv"}

(* ------------------------- subtitle extraction ------------------------- *)

\* References of the streams extractTextSubs starts an extraction for.
extractTextSubs(r, streams) ==
  IF r = 1 THEN getTextSubtitles(streams)
  ELSE SelectSeq(getTextSubtitles(streams), LAMBDA k : streams[k].lang = "eng")

\* A promise nobody has settled yet, and the absence of a promise.
pendingPromise == [st |-> "pending", value |-> Undefined]

noPromise == [st |-> "none", value |-> Undefined]

\* extractTextSub: the subprocess started for one stream.
extractTextSub(stream, streamCount) ==
  [index |-> stream.index,
   opts |-> << <<"-hide_banner">>,
               <<"-map 0:s:" \o ToString(stream.index), "-scodec srt">> >>,
   outputFile |-> getSubFilename(stream, streamCount),
   st |-> "running",
   promise |-> pendingPromise]

\* extractPgsSubs starts pgsrip when the input has a PGS stream.
extractPgsSubs(streams) ==
  IF \E k \in DOMAIN streams : streams[k].codecName = "hdmv_pgs_subtitle"
    THEN "running" ELSE "none"

(* ------------------------------- startup ------------------------------- *)

\* The revisions of class App whose constructor is modelled: 1 is the one
\* that calls Ffmpeg.check, 2 tests the argument in the constructor body,
\* 3 declares its fields with initializers.  Only the run of revision 3 is
\* modelled; the others are followed up to the end of their constructor.
AppRevisions == {1, 2, 3}

\* process.argv[3]
inputFileArg == "/videos/movie.mp4"

InputFiles == {Undefined, inputFileArg}

outputFileExt == "mkv"

TypeError == "TypeError"

\* path.dirname and path.basename throw on a value that is not a string;
\* inputBase is dirname joined with the basename of inputFileArg.
getOutputFilename(file, c) ==
  IF file = Undefined THEN TypeError
  ELSE inputBase \o "_" \o c \o "." \o outputFileExt

\* App.getOutputFilename of the revisions 1 and 2.
AppGetOutputFilename(file, c) ==
  IF file = Undefined THEN TypeError
  ELSE inputBase \o "-" \o c \o ".mkv"

\* Ffmpeg.check is an async function: what the caller gets is a promise of
\* the answer.
FfmpegCheck(found) == [type |-> "promise", value |-> found]

\* The operator ! of JavaScript: an object, a promise included, is truthy.
jsNot(v) == v.type = "boolean" /\ ~v.value

\* console.error prints its arguments and returns undefined.
consoleError(err) == Undefined

\* The error a failed ffmpeg subprocess is reported with.
errText == "ffmpeg exited with code 1"

msgNoInputFile == "Input file not specified."

msgNoFfmpeg == "FFMPEG not found. Please install it and try again."

msgNoAudio == "No audio streams mapped."

msgNoTextSubs == "No text English subtitles were found in the video file."

msgNoPgsSubs == "No text English PGS subtitles were found in the video file."

(* ------------------------------- state --------------------------------- *)

VARIABLES
  rev,            \* revision of the mapping and runner code
  command,        \* process.argv[2]
  probe,          \* the streams array ffprobe reports
  encoders,       \* what the ffmpeg build reports for libfdk_aac
  appRev,         \* revision of class App
  inputFile,      \* process.argv[3]
  ffmpegFound,    \* whether `ffmpeg -version` can be run
  outputFilename, \* App.outputFilename
  pc,             \* "new", "constructed", "start", "ready", "running",
                  \* "done", "crashed", "exited"
  exitCode,       \* "none" while the process lives, then "0" or "1"
  log,            \* what was printed at warning or error level, and the
                  \* report of an uncaught exception
  runPromise,     \* the promise wrapped around the primary transcode
  inputStreams,   \* Ffmpeg.inputStreams
  outputStreams,  \* Ffmpeg.outputStreams, as references into inputStreams
  convertOpts,    \* Ffmpeg.convertOpts
  hasLibfdk,      \* Ffmpeg.hasLibfdk (rev 2)
  cmd,            \* output options of the primary fluent-ffmpeg command
  saved,          \* save() has been called on the primary command
  mq,             \* microtask queue
  cb,             \* the forEach callbacks of mapAudioStreams
  procs,          \* subtitle extraction subprocesses
  pgsrip,         \* the pgsrip subprocess: "none", "running", "closed",
                  \* "failed"
  primary,        \* primary transcode: "none", "running", "end", "error"
  fn,             \* the function called on its own ("none" in a run of the
                  \* program)
  args,           \* its arguments
  out             \* <<>> before the call, then <<value returned>>

vars ==
  <<rev, command, probe, encoders, appRev, inputFile, ffmpegFound,
    outputFilename, pc, exitCode, log, runPromise, inputStreams,
    outputStreams, convertOpts, hasLibfdk, cmd, saved, mq, cb, procs, pgsrip,
    primary, fn, args, out>>

\* What the process is started with; the variables of a function called on
\* its own stay as they are in a run of the program.
argv == <<rev, command, encoders, appRev, inputFile, ffmpegFound, fn, args, out>>

input == <<argv, probe, outputFilename>>

Init ==
  /\ rev \in Revisions
  /\ command \in Commands
  /\ encoders \in EncoderLists
  /\ appRev \in AppRevisions
  /\ inputFile \in InputFiles
  /\ ffmpegFound \in BOOLEAN
  /\ appRev # 1 => ffmpegFound
  /\ probe = <<>>
  /\ outputFilename = Undefined
  /\ pc = "new"
  /\ exitCode = "none"
  /\ log = {}
  /\ runPromise = noPromise
  /\ inputStreams = NoStreams
  /\ outputStreams = NoStreams
  /\ convertOpts = defaultOpts
  /\ hasLibfdk = FALSE
  /\ cmd = <<>>
  /\ saved = FALSE
  /\ mq = <<>>
  /\ cb = <<>>
  /\ procs = <<>>
  /\ pgsrip = "none"
  /\ primary = "none"
  /\ fn = "none"
  /\ args = <<>>
  /\ out = <<>>

(* ------------------------------ actions -------------------------------- *)

\* process.exit(1) after log.error(msg).
exitWithError(msg) ==
  /\ log' = log \cup {<<"error", msg>>}
  /\ exitCode' = "1"
  /\ pc' = "exited"

\* An exception nobody catches, or a rejection nobody handles: node prints
\* it and the process ends with code 1.
uncaught(what) ==
  /\ log' = log \cup {<<"uncaught", what>>}
  /\ exitCode' = "1"
  /\ pc' = "exited"

\* new App() of revision 1: the test of Ffmpeg.check, then the fields.
AppConstructorWithCheck ==
  /\ pc = "new"
  /\ appRev = 1
  /\ IF jsNot(FfmpegCheck(ffmpegFound))
       THEN exitWithError(msgNoFfmpeg) /\ UNCHANGED outputFilename
       ELSE LET name == AppGetOutputFilename(inputFile, command)
            IN  IF name = TypeError
                  THEN uncaught(TypeError) /\ UNCHANGED outputFilename
                  ELSE /\ outputFilename' = name
                       /\ pc' = "constructed"
                       /\ UNCHANGED <<exitCode, log>>
  /\ UNCHANGED <<argv, probe, runPromise, inputStreams, outputStreams,
                 convertOpts, hasLibfdk, cmd, saved, mq, cb, procs, pgsrip,
                 primary>>

\* new App() of revision 2: the test of the argument, then the filename.
AppConstructorArgFirst ==
  /\ pc = "new"
  /\ appRev = 2
  /\ IF inputFile = Undefined
       THEN exitWithError(msgNoInputFile) /\ UNCHANGED outputFilename
       ELSE /\ outputFilename' = AppGetOutputFilename(inputFile, command)
            /\ pc' = "constructed"
            /\ UNCHANGED <<exitCode, log>>
  /\ UNCHANGED <<argv, probe, runPromise, inputStreams, outputStreams,
                 convertOpts, hasLibfdk, cmd, saved, mq, cb, procs, pgsrip,
                 primary>>

\* new App() of revision 3: the field initializers run first, in the order
\* of their declaration, then the body of the constructor.
AppConstructor ==
  /\ pc = "new"
  /\ appRev = 3
  /\ LET name == getOutputFilename(inputFile, command)
     IN  IF name = TypeError
           THEN uncaught(TypeError) /\ UNCHANGED outputFilename
           ELSE IF inputFile = Undefined
                  THEN exitWithError(msgNoInputFile) /\ outputFilename' = name
                  ELSE /\ outputFilename' = name
                       /\ pc' = "start"
                       /\ UNCHANGED <<exitCode, log>>
  /\ UNCHANGED <<argv, probe, runPromise, inputStreams, outputStreams,
                 convertOpts, hasLibfdk, cmd, saved, mq, cb, procs, pgsrip,
                 primary>>

\* Ffmpeg.init, awaited by App.run: probe and classify the input.
FfmpegInit ==
  /\ pc = "start"
  /\ \E v \in VideoProbes, s \in SeqsUpTo(AudioProbes \cup SubProbes, MaxStreams) :
       /\ probe' = <<v>> \o s
       /\ inputStreams' = getInputStreams(rev, <<v>> \o s)
       /\ log' = IF getInputStreams(rev, <<v>> \o s).audio = <<>>
                   THEN log \cup {<<"error", msgNoAudio>>} ELSE log
  /\ hasLibfdk' = (rev = 2 /\ outputAudioCodec = "aac" /\ hasLibfdkEncoder(encoders))
  /\ pc' = "ready"
  /\ UNCHANGED <<argv, outputFilename, exitCode, runPromise, outputStreams,
                 convertOpts, cmd, saved, mq, cb, procs, pgsrip, primary>>

\* App.run without the early return for info.
returnsAfterInfoNever(c) == FALSE

\* `if (this.command === "info") return` of App.run.
returnsAfterInfo(c) == c = "info"

\* App.run for the command info: print and return.
AppRunInfo ==
  /\ pc = "ready"
  /\ returnsAfterInfo(command)
  /\ pc' = "done"
  /\ UNCHANGED <<input, exitCode, log, runPromise, inputStreams, outputStreams,
                 convertOpts, hasLibfdk, cmd, saved, mq, cb, procs, pgsrip,
                 primary>>

\* Ffmpeg.extractSubs as called by App.cleanup: the subprocesses started.
extractSubsProcs(opts) ==
  IF opts.extractSubs
    THEN LET textSubs == extractTextSubs(rev, inputStreams.subtitle)
         IN  [i \in 1..Len(textSubs) |->
                extractTextSub(inputStreams.subtitle[textSubs[i]], Len(textSubs))]
    ELSE <<>>

extractSubsPgsrip(opts) ==
  IF opts.extractSubs THEN extractPgsSubs(inputStreams.subtitle) ELSE "none"

\* The warnings of extractTextSubs and extractPgsSubs.
extractSubsLog(opts) ==
  IF opts.extractSubs
    THEN (IF extractTextSubs(rev, inputStreams.subtitle) = <<>>
            THEN {<<"warn", msgNoTextSubs>>} ELSE {})
         \cup
         (IF extractPgsSubs(inputStreams.subtitle) = "none"
            THEN {<<"warn", msgNoPgsSubs>>} ELSE {})
    ELSE {}

\* App.run and App.cleanup for extract-subs: start the extractions, return.
AppRunExtractOnly ==
  /\ pc = "ready"
  /\ ~returnsAfterInfo(command)
  /\ LET opts == commandOpts(command)
     IN  /\ opts.extractSubs /\ opts.extractOnly
         /\ convertOpts' = opts
         /\ procs' = extractSubsProcs(opts)
         /\ pgsrip' = extractSubsPgsrip(opts)
         /\ log' = log \cup extractSubsLog(opts)
  /\ pc' = "running"
  /\ UNCHANGED <<input, exitCode, runPromise, inputStreams, outputStreams,
                 hasLibfdk, cmd, saved, mq, cb, primary>>

\* The options Ffmpeg.run adds right before save().
runFinalOpts(r, outVideo) ==
  IF r = 1
    THEN << <<"-metadata", "language=eng">>,
            <<"-brand mp42", "-movflags +faststart">>,
            <<"-tag:v hvc1">>,
            <<"-map_metadata:g -1">>,
            <<"-f " \o outputContainerFormat>> >>
    ELSE (IF outVideo[1].codecName = "H.265"
            THEN << <<"-tag:v hvc1">>, <<"-movflags +faststart">> >>
            ELSE <<>>)
         \o << <<"-metadata", "language=eng">>,
               <<"-map_metadata:g -1">>,
               <<"-f " \o outputContainerFormat>> >>

\* The forEach callbacks of mapAudioStreams, each run up to its await.
mapAudioCallbacks(r, streams, opts) ==
  LET each == mapAudioStreamsEach(r, streams)
  IN  [i \in 1..Len(each) |->
         LET now == getAudioEncoder(streams[each[i]].codecName, opts.convertAudio)
         IN  [ref |-> each[i],
              st |-> IF now = "lookup" THEN "lookup" ELSE "await",
              codec |-> IF now = "lookup" THEN "" ELSE now]]

\* Microtasks queued by the callbacks whose encoder is known at once.
mapAudioMicrotasks(cbs) ==
  LET ready == SelectSeq([i \in 1..Len(cbs) |-> i], LAMBDA i : cbs[i].st = "await")
  IN  [j \in 1..Len(ready) |-> [k |-> "map", i |-> ready[j]]]

\* App.run and App.cleanup for a mapping command, up to the end of the
\* synchronous part of Ffmpeg.run: the extractions are started, the video
\* and subtitle options are added, the audio callbacks are started; rev 1
\* then awaits (its continuation calls save()), rev 2 calls save() at once.
AppRunCleanup ==
  /\ pc = "ready"
  /\ ~returnsAfterInfo(command)
  /\ LET opts == commandOpts(command)
         video == mapVideoStreams(inputStreams.video, opts)
         cbs == mapAudioCallbacks(rev, inputStreams.audio, opts)
         mapped ==
           << <<"-hide_banner">> >>
           \o mapVideoStreamsOpts(inputStreams.video, opts)
           \o mapImageSubsOpts(rev, inputStreams.subtitle)
     IN  /\ ~(opts.extractSubs /\ opts.extractOnly)
         /\ convertOpts' = opts
         /\ procs' = extractSubsProcs(opts)
         /\ pgsrip' = extractSubsPgsrip(opts)
         /\ log' = log \cup extractSubsLog(opts)
         /\ inputStreams' = [inputStreams EXCEPT !.video = video]
         /\ cb' = cbs
         /\ IF rev = 1
              THEN /\ cmd' = mapped
                   /\ mq' = mapAudioMicrotasks(cbs) \o <<[k |-> "run", i |-> 0]>>
                   /\ UNCHANGED <<outputStreams, saved, primary>>
              ELSE /\ outputStreams' =
                        [video |-> <<1>>,
                         audio |-> mapAudioStreams(rev, inputStreams.audio),
                         subtitle |-> mapImageSubs(rev, inputStreams.subtitle)]
                   /\ cmd' = mapped \o runFinalOpts(rev, video)
                   /\ saved' = TRUE
                   /\ primary' = "running"
                   /\ mq' = mapAudioMicrotasks(cbs)
  /\ pc' = "running"
  /\ UNCHANGED <<input, exitCode, runPromise, hasLibfdk>>

\* The forEach callback i of mapAudioStreams resumes after its await.
MicrotaskMap ==
  /\ pc = "running"
  /\ mq # <<>>
  /\ Head(mq).k = "map"
  /\ LET i == Head(mq).i
         ref == cb[i].ref
     IN  /\ inputStreams' =
               IF rev = 2 /\ convertOpts.convertAudio
                 THEN [inputStreams EXCEPT !.audio[ref].codecName = outputAudioCodec]
                 ELSE inputStreams
         /\ cmd' = cmd \o mapAudioStreamOpts(rev, inputStreams.audio[ref], i - 1,
                                             cb[i].codec)
         /\ cb' = [cb EXCEPT ![i].st = "done"]
  /\ mq' = Tail(mq)
  /\ UNCHANGED <<input, pc, exitCode, log, runPromise, outputStreams,
                 convertOpts, hasLibfdk, saved, procs, pgsrip, primary>>

\* getAudioEncoder resumes after its own await and returns the encoder:
\* the callback that awaits it is queued.
MicrotaskEncoder ==
  /\ pc = "running"
  /\ mq # <<>>
  /\ Head(mq).k = "enc"
  /\ mq' = Append(Tail(mq), [k |-> "map", i |-> Head(mq).i])
  /\ UNCHANGED <<input, pc, exitCode, log, runPromise, inputStreams,
                 outputStreams, convertOpts, hasLibfdk, cmd, saved, cb, procs,
                 pgsrip, primary>>

\* Ffmpeg.run of rev 1 resumes after `await mapStreams(...)`: the final
\* options are added and the primary transcode is started inside a promise.
MicrotaskRun ==
  /\ pc = "running"
  /\ mq # <<>>
  /\ Head(mq).k = "run"
  /\ cmd' = cmd \o runFinalOpts(rev, inputStreams.video)
  /\ saved' = TRUE
  /\ primary' = "running"
  /\ runPromise' = pendingPromise
  /\ mq' = Tail(mq)
  /\ UNCHANGED <<input, pc, exitCode, log, inputStreams, outputStreams,
                 convertOpts, hasLibfdk, cb, procs, pgsrip>>

\* getAvailableEncoders calls back for callback i: the promise resolves, or
\* the callback throws and the process dies on the uncaught exception.
LookupDone(i) ==
  /\ pc = "running"
  /\ mq = <<>>
  /\ cb[i].st = "lookup"
  /\ LET result == availableEncodersCallback(encoders)
     IN  IF result = "TypeError"
           THEN /\ pc' = "crashed"
                /\ exitCode' = "1"
                /\ log' = log \cup {<<"uncaught", TypeError>>}
                /\ UNCHANGED <<cb, mq>>
           ELSE /\ cb' = [cb EXCEPT ![i].st = "await", ![i].codec = result]
                /\ mq' = <<[k |-> "enc", i |-> i]>>
                /\ UNCHANGED <<pc, exitCode, log>>
  /\ UNCHANGED <<input, runPromise, inputStreams, outputStreams, convertOpts,
                 hasLibfdk, cmd, saved, procs, pgsrip, primary>>

\* An extraction subprocess emits "end": the promise of extractTextSub
\* resolves.
ExtractEnd(p) ==
  /\ pc = "running"
  /\ mq = <<>>
  /\ procs[p].st = "running"
  /\ procs' = [procs EXCEPT ![p].st = "end", ![p].promise.st = "resolved"]
  /\ UNCHANGED <<input, pc, exitCode, log, runPromise, inputStreams,
                 outputStreams, convertOpts, hasLibfdk, cmd, saved, mq, cb,
                 pgsrip, primary>>

\* An extraction subprocess emits "error": reject(console.error(err)).
\* extractTextSub was called without await and without catch, so nobody
\* handles the rejection.
ExtractError(p) ==
  /\ pc = "running"
  /\ mq = <<>>
  /\ procs[p].st = "running"
  /\ procs' = [procs EXCEPT ![p].st = "error",
                            ![p].promise = [st |-> "rejected",
                                            value |-> consoleError(errText)]]
  /\ log' = log \cup {<<"error", errText>>, <<"uncaught", "UnhandledRejection">>}
  /\ exitCode' = "1"
  /\ pc' = "exited"
  /\ UNCHANGED <<input, runPromise, inputStreams, outputStreams, convertOpts,
                 hasLibfdk, cmd, saved, mq, cb, pgsrip, primary>>

\* What pgsrip can end with.
PgsripCodes == {"0", "1"}

\* pgsrip emits "close": the handler logs success whatever the code is.
PgsripClose(code) ==
  /\ pc = "running"
  /\ mq = <<>>
  /\ pgsrip = "running"
  /\ pgsrip' = IF code = "0" THEN "closed" ELSE "failed"
  /\ UNCHANGED <<input, pc, exitCode, log, runPromise, inputStreams,
                 outputStreams, convertOpts, hasLibfdk, cmd, saved, mq, cb,
                 procs, primary>>

\* The primary transcode emits "end".
PrimaryEnd ==
  /\ pc = "running"
  /\ mq = <<>>
  /\ primary = "running"
  /\ primary' = "end"
  /\ runPromise' = IF rev = 1 THEN [runPromise EXCEPT !.st = "resolved"]
                   ELSE runPromise
  /\ UNCHANGED <<input, pc, exitCode, log, inputStreams, outputStreams,
                 convertOpts, hasLibfdk, cmd, saved, mq, cb, procs, pgsrip>>

\* The primary transcode emits "error".  rev 1: reject(console.error(err)),
\* and App.cleanup called run() without await, so its try/catch is left and
\* nobody handles the rejection.  rev 2: console.error(err) and nothing else.
PrimaryError ==
  /\ pc = "running"
  /\ mq = <<>>
  /\ primary = "running"
  /\ primary' = "error"
  /\ IF rev = 1
       THEN /\ runPromise' = [st |-> "rejected", value |-> consoleError(errText)]
            /\ log' = log \cup {<<"error", errText>>,
                                <<"uncaught", "UnhandledRejection">>}
            /\ exitCode' = "1"
            /\ pc' = "exited"
       ELSE /\ log' = log \cup {<<"error", errText>>}
            /\ UNCHANGED <<runPromise, exitCode, pc>>
  /\ UNCHANGED <<input, inputStreams, outputStreams, convertOpts, hasLibfdk,
                 cmd, saved, mq, cb, procs, pgsrip>>

\* Nothing is left to wait for: no microtask, no encoder lookup, no
\* subprocess.
Quiescent ==
  /\ mq = <<>>
  /\ \A i \in DOMAIN cb : cb[i].st # "lookup"
  /\ \A p \in DOMAIN procs : procs[p].st # "running"
  /\ pgsrip # "running"
  /\ primary # "running"

\* The event loop is empty: node ends the process with code 0.
ProcessExit ==
  /\ pc \in {"done", "running"}
  /\ Quiescent
  /\ exitCode' = "0"
  /\ pc' = "exited"
  /\ UNCHANGED <<input, log, runPromise, inputStreams, outputStreams,
                 convertOpts, hasLibfdk, cmd, saved, mq, cb, procs, pgsrip,
                 primary>>

Next ==
  \/ AppConstructorWithCheck
  \/ AppConstructorArgFirst
  \/ AppConstructor
  \/ FfmpegInit
  \/ AppRunInfo
  \/ AppRunExtractOnly
  \/ AppRunCleanup
  \/ MicrotaskMap
  \/ MicrotaskEncoder
  \/ MicrotaskRun
  \/ \E i \in 1..MaxStreams : i <= Len(cb) /\ LookupDone(i)
  \/ \E p \in 1..MaxStreams : p <= Len(procs) /\ ExtractEnd(p)
  \/ \E p \in 1..MaxStreams : p <= Len(procs) /\ ExtractError(p)
  \/ \E code \in PgsripCodes : PgsripClose(code)
  \/ PrimaryEnd
  \/ PrimaryError
  \/ ProcessExit

Spec == Init /\ [][Next]_vars

(* --------------------- functions called on their own ------------------- *)

\* The pure functions of the stream and file-name modules are also run one
\* call at a time: the initial state holds the function and its arguments,
\* the action of the function applies it and stores what it returns.

\* channel_layout strings of ffprobe, and channel counts as toString gives
\* them.
ChannelLayouts ==
  {<<"5", ".", "1">>,
   <<"6">>,
   <<"7", ".", "1">>,
   <<"8">>,
   <<"5", ".", "0">>,
   <<"5">>,
   <<"s", "t", "e", "r", "e", "o">>,
   <<"m", "o", "n", "o">>,
   <<"2">>,
   <<"1">>,
   <<"5", ".", "1", "(", "s", "i", "d", "e", ")">>,
   <<"7", ".", "1", "(", "w", "i", "d", "e", ")">>,
   <<"q", "u", "a", "d">>}

\* codec_long_name strings of ffprobe.
CodecLongNames ==
  {<<"A", "A", "C", " ", "(", "A", "d", "v", "a", "n", "c", "e", "d", " ", "A", "u", "d", "i", "o", " ", "C", "o", "d", "i", "n", "g", ")">>,
   <<"A", "T", "S", "C", " ", "A", "/", "5", "2", "A", " ", "(", "A", "C", "-", "3", ")">>,
   <<"A", "T", "S", "C", " ", "A", "/", "5", "2", "B", " ", "(", "A", "C", "-", "3", ",", " ", "E", "-", "A", "C", "-", "3", ")">>,
   <<"D", "C", "A", " ", "(", "D", "T", "S", " ", "C", "o", "h", "e", "r", "e", "n", "t", " ", "A", "c", "o", "u", "s", "t", "i", "c", "s", ")">>,
   <<"F", "L", "A", "C", " ", "(", "F", "r", "e", "e", " ", "L", "o", "s", "s", "l", "e", "s", "s", " ", "A", "u", "d", "i", "o", " ", "C", "o", "d", "e", "c", ")">>,
   <<"M", "P", "3", " ", "(", "M", "P", "E", "G", " ", "a", "u", "d", "i", "o", " ", "l", "a", "y", "e", "r", " ", "3", ")">>,
   <<"A", "D", "U", " ", "(", "A", "p", "p", "l", "i", "c", "a", "t", "i", "o", "n", " ", "D", "a", "t", "a", " ", "U", "n", "i", "t", ")", " ", "M", "P", "3", " ", "(", "M", "P", "E", "G", " ", "a", "u", "d", "i", "o", " ", "l", "a", "y", "e", "r", " ", "3", ")">>,
   <<"P", "C", "M", " ", "s", "i", "g", "n", "e", "d", " ", "1", "6", "-", "b", "i", "t", " ", "l", "i", "t", "t", "l", "e", "-", "e", "n", "d", "i", "a", "n">>,
   <<"T", "r", "u", "e", "H", "D">>}

\* Title tags of audio streams: none, plain, padded, blank.
AudioTitles ==
  {<<>>, <<"C", "o", "m", "m", "e", "n", "t", "a", "r", "y">>,
   <<" ", "D", "i", "r", "e", "c", "t", "o", "r", " ">>, <<" ">>}

\* Audio probe records with and without a channel_layout.
FnAudioProbes ==
  {[Probe("audio", "ac3", "eng", t, l[1]) EXCEPT !.channel_layout = l[2]] :
     t \in AudioTitles,
     l \in {<<6, <<"5", ".", "1", "(", "s", "i", "d", "e", ")">>>>, <<2, <<"s", "t", "e", "r", "e", "o">>>>,
            <<2, <<>> >>, <<8, <<>> >>}}

\* Probe records of every codec_type, the types the program skips included.
FnProbes ==
  {Probe("video", "h264", "eng", <<>>, 0),
   Probe("audio", "ac3", "eng", <<>>, 6),
   Probe("audio", "aac", "fre", <<>>, 2),
   Probe("subtitle", "subrip", "eng", <<>>, 0),
   Probe("data", "bin_data", Undefined, <<>>, 0)}

SubtitleCodecs == textSubTypes \cup {"hdmv_pgs_subtitle", "dvd_subtitle"}

\* Classified subtitle records.
FnSubtitleStream(codec, title, index) ==
  getSubtitleStreamData(Probe("subtitle", codec, "eng", title, 0), index)

SubtitleTitles == {<<>>, <<"F", "o", "r", "c", "e", "d">>, <<"S", "D", "H">>}

\* Lists of classified subtitle streams, as getInputStreams builds them.
FnSubtitleLists ==
  {[k \in DOMAIN codecs |-> FnSubtitleStream(codecs[k], <<>>, k - 1)] :
     codecs \in SeqsUpTo(SubtitleCodecs, MaxStreams)}

Languages == {"eng", "fre", Undefined}

CodecNames == {"aac", "ac3", "subrip", "ass", "hdmv_pgs_subtitle", "hevc"}

StreamTypes == {"audio", "subtitle", "video"}

\* The variables of a run of the program, at rest.
AtRest ==
  /\ command = "info"
  /\ encoders = "absent"
  /\ appRev = 3
  /\ inputFile = inputFileArg
  /\ ffmpegFound = TRUE
  /\ probe = <<>>
  /\ outputFilename = Undefined
  /\ pc = "fn"
  /\ exitCode = "none"
  /\ log = {}
  /\ runPromise = noPromise
  /\ inputStreams = NoStreams
  /\ outputStreams = NoStreams
  /\ convertOpts = defaultOpts
  /\ hasLibfdk = FALSE
  /\ cmd = <<>>
  /\ saved = FALSE
  /\ mq = <<>>
  /\ cb = <<>>
  /\ procs = <<>>
  /\ pgsrip = "none"
  /\ primary = "none"

InitFn ==
  /\ AtRest
  /\ rev \in Revisions
  /\ out = <<>>
  /\ \/ /\ fn = "formatChannelLayout"
        /\ \E channelLayout \in ChannelLayouts : args = <<channelLayout>>
     \/ /\ fn = "formatCodecName"
        /\ \E name \in CodecLongNames : args = <<name>>
     \/ /\ fn = "getAudioStreamData"
        /\ \E stream \in FnAudioProbes, index \in 0..MaxStreams :
             args = <<stream, index>>
     \/ /\ fn = "getInputStreams"
        /\ \E streams \in SeqsUpTo(FnProbes, MaxProbe) : args = <<streams>>
     \/ /\ fn = "getSubtitles"
        /\ \E streams \in FnSubtitleLists : args = <<streams>>
     \/ /\ fn = "getSubFilename"
        /\ \E title \in SubtitleTitles, index \in 0..MaxStreams,
              streamCount \in 1..(MaxStreams + 1) :
             args = <<FnSubtitleStream("subrip", title, index), streamCount>>
     \/ /\ fn = "streamNeedsAttention"
        /\ \E lang \in Languages, codec \in CodecNames, type \in StreamTypes :
             args = <<lang, codec, type>>

\* The call returns value.
returns(value) ==
  /\ out = <<>>
  /\ out' = <<value>>
  /\ UNCHANGED <<rev, command, probe, encoders, appRev, inputFile, ffmpegFound,
                 outputFilename, pc, exitCode, log, runPromise, inputStreams,
                 outputStreams, convertOpts, hasLibfdk, cmd, saved, mq, cb,
                 procs, pgsrip, primary, fn, args>>

CallFormatChannelLayout ==
  /\ fn = "formatChannelLayout"
  /\ returns(formatChannelLayout(rev, args[1]))

CallFormatCodecName ==
  /\ fn = "formatCodecName"
  /\ returns(formatCodecName(args[1]))

CallGetAudioStreamData ==
  /\ fn = "getAudioStreamData"
  /\ returns(getAudioStreamData(rev, args[1], args[2]))

CallGetInputStreams ==
  /\ fn = "getInputStreams"
  /\ returns(getInputStreams(rev, args[1]))

\* getTextSubtitles and getImageSubtitles on the same list.
CallGetSubtitles ==
  /\ fn = "getSubtitles"
  /\ returns([text |-> getTextSubtitles(args[1]),
              image |-> getImageSubtitles(args[1])])

CallGetSubFilename ==
  /\ fn = "getSubFilename"
  /\ returns(getSubFilename(args[1], args[2]))

CallStreamNeedsAttention ==
  /\ fn = "streamNeedsAttention"
  /\ returns(streamNeedsAttention(args[1], args[2], args[3]))

NextFn ==
  \/ CallFormatChannelLayout
  \/ CallFormatCodecName
  \/ CallGetAudioStreamData
  \/ CallGetInputStreams
  \/ CallGetSubtitles
  \/ CallGetSubFilename
  \/ CallStreamNeedsAttention

SpecFn == InitFn /\ [][NextFn]_vars


(* --------------------- reading the primary command --------------------- *)

HasOpt(o) == \E k \in DOMAIN cmd : cmd[k] = o

\* The classification of the probe, before any mapping modified a record.
classified == getInputStreams(rev, probe)

\* Ffmpeg.run has been entered and no audio callback is still to resume:
\* every callback has added its options, or the process has died.
Settled ==
  /\ pc \in {"running", "crashed"}
  /\ command \in MappingCommands
  /\ mq = <<>>
  /\ \/ pc = "crashed"
     \/ \A i \in DOMAIN cb : cb[i].st = "done"

AudioMapOpt(stream) == <<"-map", "0:a:" \o ToString(stream.index)>>

IsAudioMapOpt(o) ==
  \E k \in DOMAIN inputStreams.audio : o = AudioMapOpt(inputStreams.audio[k])

\* The "-map 0:a:<n>" options in command order: the i-th of them makes
\* audio stream i-1 of the output file.
AudioMaps == SelectSeq(cmd, IsAudioMapOpt)

\* Reference of the input audio stream a "-map" option selects.
RefOfAudioMap(o) ==
  CHOOSE k \in DOMAIN inputStreams.audio : o = AudioMapOpt(inputStreams.audio[k])

AudioEncoders == {"copy", "libfdk_aac", "aac"}

\* Encoder named by a codec option that applies to output audio stream p:
\* "-c:a <enc>" applies to every audio stream, "-c:a:<p> <enc>" to stream p.
AudioCodecOf(o, p) ==
  IF Len(o) = 1
     /\ \E c \in AudioEncoders :
          o[1] = "-c:a " \o c \/ o[1] = "-c:a:" \o ToString(p) \o " " \o c
    THEN CHOOSE c \in AudioEncoders :
           o[1] = "-c:a " \o c \/ o[1] = "-c:a:" \o ToString(p) \o " " \o c
    ELSE "none"

\* ffmpeg applies the last codec option that matches the stream; without
\* one it picks the default encoder of the container.
EffectiveAudioCodec(p) ==
  LET matching == SelectSeq(cmd, LAMBDA o : AudioCodecOf(o, p) # "none")
  IN  IF matching = <<>> THEN "default"
      ELSE AudioCodecOf(matching[Len(matching)], p)

(* ------------------------------- claims -------------------------------- *)

\* C1: an audio stream gets a "-map 0:a:<index>" option in the primary
\* command if and only if its language tag is "eng": no other stream is
\* ever mapped, and once the mapping has settled every English one is.
C1_MapsExactlyEnglishAudio ==
  \A k \in DOMAIN inputStreams.audio :
    LET s == inputStreams.audio[k]
    IN  /\ HasOpt(AudioMapOpt(s)) => s.lang = "eng"
        /\ Settled /\ s.lang = "eng" => HasOpt(AudioMapOpt(s))

\* C2: once the primary transcode has been started with save(), no option
\* is added to its command any more.
C2_NoOptionAfterSave == [][saved => cmd' = cmd]_vars

\* C3: once the mapping has settled, the encoder that applies to each
\* audio stream of the output is "copy" when convertAudio is not set or
\* the stream's source codec is aac, and an AAC encoder otherwise.
C3_CodecActionPerStream ==
  Settled /\ pc = "running" =>
    \A p \in 1..Len(AudioMaps) :
      LET k == RefOfAudioMap(AudioMaps[p])
          effective == EffectiveAudioCodec(p - 1)
      IN  IF ~convertOpts.convertAudio \/ classified.audio[k].codecName = "aac"
            THEN effective = "copy"
            ELSE effective \in {"libfdk_aac", "aac"}

\* C4: an encoder lookup always yields libfdk_aac when the encoder list
\* reports libfdk_aac as an audio encoder and aac in every other case,
\* also when the list has no libfdk_aac entry; it never fails.
C4_LookupYieldsAacEncoder ==
  /\ pc # "crashed"
  /\ \A i \in DOMAIN cb :
       cb[i].codec \in {"", "copy", IF encoders = "audio" THEN "libfdk_aac" ELSE "aac"}

VideoCodecOpts == SelectSeq(cmd, LAMBDA o : o[1] = "-vcodec")

ConvertOnlyOpts == {"-preset", "-crf", "-pix_fmt:v:0", "-profile:v:0"}

\* The primary command has been built up to the options of mapStreams.
Mapped == pc \in {"running", "crashed"} /\ command \in MappingCommands

\* C5: the primary command holds exactly one video codec action: libx265
\* if and only if convertVideo is set and (the source codec is not hevc or
\* forceConvert is set), "copy" otherwise; preset, crf, pixel format and
\* profile options are present only when converting.
C5_VideoCodecAction ==
  Mapped =>
    LET converting ==
          /\ convertOpts.convertVideo
          /\ classified.video[1].codecName # "hevc" \/ convertOpts.forceConvert
    IN  /\ Len(VideoCodecOpts) = 1
        /\ VideoCodecOpts[1] = <<"-vcodec", IF converting THEN "libx265" ELSE "copy">>
        /\ (\E k \in DOMAIN cmd : cmd[k][1] \in ConvertOnlyOpts) <=> converting

\* A forced conversion of a stream that is already hevc has been mapped.
C5_Witness ==
  /\ Mapped
  /\ convertOpts.forceConvert
  /\ classified.video[1].codecName = "hevc"
  /\ HasOpt(<<"-vcodec", "libx265">>)
  /\ HasOpt(<<"-crf", ToString(tvCrf)>>)

SubMapOpt(stream) == <<"-map", "0:s:" \o ToString(stream.index)>>

IsSubMapOpt(o) ==
  \E k \in DOMAIN inputStreams.subtitle : o = SubMapOpt(inputStreams.subtitle[k])

\* The "-map 0:s:<n>" options in command order: the i-th of them makes
\* subtitle stream i-1 of the output file.
SubMaps == SelectSeq(cmd, IsSubMapOpt)

\* Zero-based positions in the output of the input subtitle stream.
SubOutputPositions(stream) ==
  {p - 1 : p \in {q \in 1..Len(SubMaps) : SubMaps[q] = SubMapOpt(stream)}}

\* C6: every English subtitle stream whose codec is not a text format is
\* mapped into the primary output, with codec "copy".
C6_EnglishImageSubsKept ==
  Mapped =>
    \A k \in DOMAIN inputStreams.subtitle :
      LET s == inputStreams.subtitle[k]
      IN  s.codecName \notin textSubTypes /\ s.lang = "eng" =>
            /\ HasOpt(SubMapOpt(s))
            /\ \A p \in SubOutputPositions(s) :
                 HasOpt(<<"-c:s:" \o ToString(p) \o " copy">>) \/ HasOpt(<<"-c:s copy">>)

\* C7: the primary command never maps a subtitle stream whose codec is one
\* of the text formats.
C7_NoTextSubMapped ==
  \A k \in DOMAIN inputStreams.subtitle :
    LET s == inputStreams.subtitle[k]
    IN  s.codecName \in textSubTypes =>
          /\ ~HasOpt(SubMapOpt(s))
          /\ ~\E j \in DOMAIN cmd : cmd[j][1] = "-map 0:s:" \o ToString(s.index)

\* The primary transcode was started for an input with a text subtitle
\* stream and a mapped image subtitle stream.
C7_Witness ==
  /\ saved
  /\ SubMaps # <<>>
  /\ \E k \in DOMAIN inputStreams.subtitle :
       /\ inputStreams.subtitle[k].codecName \in textSubTypes
       /\ inputStreams.subtitle[k].lang = "eng"

\* Number of extraction subprocesses started for the subtitle stream.
ExtractionsOf(stream) ==
  Cardinality({p \in DOMAIN procs : procs[p].index = stream.index})

\* C8: subtitle extraction starts exactly one subprocess for each subtitle
\* stream that is text-based and English, and none for any other stream.
C8_ExtractsExactlyEnglishText ==
  pc = "running" /\ convertOpts.extractSubs =>
    \A k \in DOMAIN inputStreams.subtitle :
      LET s == inputStreams.subtitle[k]
      IN  ExtractionsOf(s) =
            IF s.codecName \in textSubTypes /\ s.lang = "eng" THEN 1 ELSE 0

\* C9: two extraction subprocesses of a run never write the same file.
C9_DistinctSubFilenames ==
  \A p, q \in DOMAIN procs :
    p # q => procs[p].outputFile # procs[q].outputFile

\* Some option sets language=eng for stream n of the given type letter.
HasLanguageEng(type, n) ==
  HasOpt(<<"-metadata:s:" \o type \o ":" \o ToString(n), "language=eng">>)

\* C10: once the mapping has settled, every stream mapped into the primary
\* output has a per-stream option setting language=eng, addressed by its
\* position in the output or by its index in the input.
C10_LanguageOnEveryMappedStream ==
  Settled /\ pc = "running" =>
    /\ HasOpt(<<"-map 0:v:0">>) => HasLanguageEng("v", 0)
    /\ \A p \in 1..Len(AudioMaps) :
         \/ HasLanguageEng("a", p - 1)
         \/ HasLanguageEng("a", inputStreams.audio[RefOfAudioMap(AudioMaps[p])].index)
    /\ \A k \in DOMAIN inputStreams.subtitle :
         LET s == inputStreams.subtitle[k]
         IN  HasOpt(SubMapOpt(s)) =>
               \/ HasLanguageEng("s", s.index)
               \/ \E p \in SubOutputPositions(s) : HasLanguageEng("s", p)

(* -------------------------- startup and exit --------------------------- *)

\* C11: every primary command mapVideoStreams has built contains the option
\* that sets the title of the video stream v:0 to the empty string.
C11_VideoTitleBlanked ==
  Mapped => HasOpt(<<"-metadata:s:v:0", "title=">>)

\* C12: for the command info the run only probes and reports: no primary
\* transcode, no extraction subprocess, no pgsrip, no option and no save().
C12_InfoHasNoSideEffects ==
  command = "info" =>
    /\ primary = "none"
    /\ procs = <<>>
    /\ pgsrip = "none"
    /\ cmd = <<>>
    /\ ~saved
    /\ runPromise = noPromise

\* An info run that has probed an input and ended.
C12_Witness ==
  /\ command = "info"
  /\ pc = "exited"
  /\ exitCode = "0"
  /\ Len(probe) > 1

\* The message getAudioStreams logs before process.exit(1).
msgNoEnglishAudio == "No English audio streams found in the video file."

NoEnglishAudio ==
  \A k \in DOMAIN classified.audio : classified.audio[k].lang # "eng"

\* C13: for a mapping command on an input without English audio the process
\* exits with code 1 after logging the error, and the primary transcode is
\* never started.
C13_NoEnglishAudioIsFatal ==
  (command \in MappingCommands /\ probe # <<>> /\ NoEnglishAudio
   /\ pc \in {"running", "crashed", "exited"}) =>
    /\ exitCode = "1"
    /\ <<"error", msgNoEnglishAudio>> \in log
    /\ primary = "none"

\* C14: after an error event of the primary transcode the process does not
\* end with code 0; it ends with code 0 only when neither the primary
\* transcode nor an extraction failed.
C14_PrimaryErrorExitsOne ==
  exitCode = "0" =>
    /\ primary # "error"
    /\ \A p \in DOMAIN procs : procs[p].st # "error"

Settles(st, promise) ==
  /\ st = "running" => promise.st = "pending"
  /\ st = "end" => promise.st = "resolved"
  /\ st = "error" => promise.st = "rejected" /\ promise.value # Undefined

\* C15: the promise around a subprocess is pending while it runs, resolved
\* after its end event, and rejected with the error (never undefined) after
\* its error event.
C15_PromiseCarriesError ==
  /\ \A p \in DOMAIN procs : Settles(procs[p].st, procs[p].promise)
  /\ runPromise # noPromise => Settles(primary, runPromise)

\* C16: with the input-file argument missing, the constructor logs "Input
\* file not specified." and exits with code 1, without computing the output
\* filename from the missing argument and without any probe or subprocess.
C16_MissingInputFileIsReported ==
  (inputFile = Undefined /\ pc # "new") =>
    /\ exitCode = "1"
    /\ <<"error", msgNoInputFile>> \in log
    /\ <<"uncaught", TypeError>> \notin log
    /\ outputFilename = Undefined
    /\ probe = <<>>
    /\ primary = "none" /\ procs = <<>> /\ pgsrip = "none"

\* C17: when ffmpeg cannot be found, the constructor that calls Ffmpeg.check
\* logs the error and exits with code 1, whether or not an input file was
\* given; here the case of a given input file.
C17_MissingFfmpegIsFatal ==
  (appRev = 1 /\ ~ffmpegFound /\ inputFile # Undefined /\ pc # "new") =>
    /\ exitCode = "1"
    /\ <<"error", msgNoFfmpeg>> \in log
    /\ pc = "exited"

ExtractingCommands == {"extract-subs", "clean", "full", "force-full"}

NoEnglishTextSubs ==
  \A k \in DOMAIN classified.subtitle :
    ~(classified.subtitle[k].codecName \in textSubTypes
      /\ classified.subtitle[k].lang = "eng")

\* C18: for a command that extracts subtitles on an input without English
\* text subtitles, the run logs the warning, starts no extraction, does not
\* report the absence as an error, and a run that ends with code 0 has
\* started the primary transcode unless the command is extract-subs.
C18_NoTextSubsIsAWarning ==
  (command \in ExtractingCommands /\ probe # <<>> /\ NoEnglishTextSubs
   /\ pc \in {"running", "crashed", "exited"}) =>
    /\ <<"warn", msgNoTextSubs>> \in log
    /\ <<"error", msgNoTextSubs>> \notin log
    /\ procs = <<>>
    /\ (exitCode = "0" /\ command # "extract-subs") => primary # "none"

\* C19: a run in which a subprocess failed (the primary transcode, an
\* extraction or pgsrip) does not end with code 0.
C19_FailureIsTerminal ==
  exitCode = "0" =>
    /\ primary # "error"
    /\ \A p \in DOMAIN procs : procs[p].st # "error"
    /\ pgsrip # "failed"

\* C20: for the command extract-subs the primary transcode is never
\* started: no option is added to it and save() is never called.
C20_ExtractSubsNeverTranscodes ==
  command = "extract-subs" =>
    /\ primary = "none"
    /\ cmd = <<>>
    /\ ~saved
    /\ runPromise = noPromise

\* An extract-subs run that started an extraction and ended.
C20_Witness ==
  /\ command = "extract-subs"
  /\ procs # <<>>
  /\ pc = "exited"
  /\ exitCode = "0"

(* ----------------- claims on the functions called alone ---------------- *)

\* The call of function name has returned.
Returned(name) == fn = name /\ out # <<>>

\* C21: for every list of subtitle streams, each stream is returned by
\* exactly one of getTextSubtitles and getImageSubtitles: by the first when
\* its codec name is one of mov_text, subrip, ass, ssa, by the second when
\* it is not.
C21_SubtitlePartition ==
  Returned("getSubtitles") =>
    \A k \in DOMAIN args[1] :
      LET isText == k \in Range(out[1].text)
          isImage == k \in Range(out[1].image)
      IN  /\ isText # isImage
          /\ isText = (args[1][k].codecName \in {"mov_text", "subrip", "ass", "ssa"})

\* C22: after getInputStreams, each of the audio, video and subtitle lists
\* holds the probe records of its type in probe order, the record at
\* position i with index i (zero-based); records of another codec type take
\* no index.
C22_IndexIsPositionInType ==
  Returned("getInputStreams") =>
    \A type \in {"audio", "video", "subtitle"} :
      LET ofType == SelectSeq(args[1], LAMBDA stream : stream.codec_type = type)
          list == out[1][type]
      IN  /\ Len(list) = Len(ofType)
          /\ \A i \in DOMAIN list :
               /\ list[i].index = i - 1
               /\ list[i].codecName = ofType[i].codec_name

\* A probe whose first record is of a skipped type and which also has a
\* subtitle and an audio stream has been classified.
C22_Witness ==
  /\ Returned("getInputStreams")
  /\ Len(args[1]) = MaxProbe
  /\ args[1][1].codec_type = "data"
  /\ Len(out[1].audio) = 1
  /\ Len(out[1].subtitle) = 1

\* What C23 says formatChannelLayout returns.
C23_Expected(channelLayout) ==
  LET raw == Str(channelLayout)
  IN  IF raw \in {"5.1", "6"} THEN "5.1 Surround"
      ELSE IF raw \in {"7.1", "8"} THEN "7.1 Surround"
      ELSE IF raw \in {"5.0", "5"} THEN "5.0 Surround"
      ELSE toUpperCase(Head(channelLayout)) \o Str(Tail(channelLayout))

\* C23: formatChannelLayout returns "5.1 Surround" for "5.1" and "6",
\* "7.1 Surround" for "7.1" and "8", "5.0 Surround" for "5.0" and "5", and
\* for every other input the input with its first character upper-cased.
C23_ChannelLayoutLabels ==
  Returned("formatChannelLayout") => out[1] = C23_Expected(args[1])

C25_WithoutSuffix(name) ==
  LET opens == {i \in DOMAIN name : name[i] = "("}
  IN  IF name # <<>> /\ name[Len(name)] = ")" /\ opens # {}
        THEN SubSeq(name, 1, (CHOOSE i \in opens : \A j \in opens : j <= i) - 1)
        ELSE name

\* C25: formatCodecName removes one parenthetical suffix from the long
\* name and trims the rest, which it returns unchanged (the text outside
\* the removed parenthetical is kept) unless it is "ATSC A/52B", for which
\* it returns "AC3".
C25_CodecNameCleanup ==
  Returned("formatCodecName") =>
    LET cleaned == Str(trim(C25_WithoutSuffix(args[1])))
    IN  out[1] = IF cleaned = "ATSC A/52B" THEN "AC3" ELSE cleaned

\* The file name of an extracted subtitle stream with the given label.
C26_Filename(stream, label) ==
  inputBase \o "." \o stream.lang \o label \o ".srt"

\* C26 as stated: no label when exactly one stream is extracted; otherwise
\* the label is the title of the stream if it has one, otherwise "default"
\* for the stream of index 0, otherwise the index.
C26_LabelTitleFirst ==
  Returned("getSubFilename") =>
    LET stream == args[1]
        label == IF args[2] = 1 THEN ""
                 ELSE IF stream.title # "" THEN "." \o stream.title
                 ELSE IF stream.index = 0 THEN ".default"
                 ELSE "." \o ToString(stream.index)
    IN  out[1] = C26_Filename(stream, label)

\* C26, amended: no label when exactly one stream is extracted; otherwise
\* the label is "default" for the stream of index 0 whatever its title,
\* otherwise the title of the stream with "SDH" in lower case if it has a
\* title, otherwise the index.
C26_LabelDefaultFirst ==
  Returned("getSubFilename") =>
    LET stream == args[1]
        label == IF args[2] = 1 THEN ""
                 ELSE IF stream.index = 0 THEN ".default"
                 ELSE IF stream.title = "SDH" THEN ".sdh"
                 ELSE IF stream.title # "" THEN "." \o stream.title
                 ELSE "." \o ToString(stream.index)
    IN  out[1] = C26_Filename(stream, label)

\* The first of several streams has a title and is named "default".
C26_Witness ==
  /\ Returned("getSubFilename")
  /\ args[2] > 1
  /\ args[1].index = 0
  /\ args[1].title = "Forced"
  /\ out[1] = "/videos/movie.eng.default.srt"

AudioOutputPosition(stream) ==
  (CHOOSE p \in DOMAIN AudioMaps : AudioMaps[p] = AudioMapOpt(stream)) - 1

\* C28: the per-stream options emitted for a mapped audio stream (the
\* codec option "-c:a:<n>" and the language and title options
\* "-metadata:s:a:<n>") carry as <n> the position of the stream among the
\* audio streams of the output, given by the order of the "-map" options.
C28_SpecifierIsOutputPosition ==
  Settled /\ pc = "running" =>
    \A i \in DOMAIN cb :
      cb[i].st = "done" =>
        LET stream == inputStreams.audio[cb[i].ref]
            emitted == mapAudioStreamOpts(rev, stream, i - 1, cb[i].codec)
            n == ToString(AudioOutputPosition(stream))
        IN  /\ rev = 2 => emitted[2] = <<"-c:a:" \o n \o " " \o cb[i].codec>>
            /\ emitted[3][1] = "-metadata:s:a:" \o n
            /\ emitted[4][1] = "-metadata:s:a:" \o n

\* C29: building the primary command leaves the records of inputStreams
\* as classification made them: same codecName, title and index, the
\* audio records in the same order.
C29_InputRecordsUntouched ==
  probe # <<>> =>
    \A type \in {"audio", "video", "subtitle"} :
      /\ Len(inputStreams[type]) = Len(classified[type])
      /\ \A k \in DOMAIN inputStreams[type] :
           /\ inputStreams[type][k].codecName = classified[type][k].codecName
           /\ inputStreams[type][k].title = classified[type][k].title
           /\ inputStreams[type][k].index = classified[type][k].index

\* The argument is part of an option of the primary command.
HasArg(a) == \E k \in DOMAIN cmd : a \in Range(cmd[k])

\* The video stream of the output is HEVC: the source is hevc already or
\* it is converted.
OutputIsHevc ==
  classified.video[1].codecName = "hevc" \/ convertOpts.convertVideo

\* C30: the primary command that has been started contains "-tag:v hvc1"
\* and "-movflags +faststart" when the video stream of the output is HEVC,
\* and neither of them when it is not.
C30_HevcTagIffHevc ==
  Mapped /\ saved /\ probe # <<>> =>
    /\ OutputIsHevc => HasArg("-tag:v hvc1") /\ HasArg("-movflags +faststart")
    /\ ~OutputIsHevc => ~HasArg("-tag:v hvc1") /\ ~HasArg("-movflags +faststart")

====
